---- MODULE Spec2Model ----
(***************************************************************************)
(* Model of package docker (github.com/normegil/docker): New() provisions  *)
(* a temporary container, selects external ports, waits for the container  *)
(* to run and for its first port to be reachable, and returns the         *)
(* container info together with a teardown closure.                       *)
(*                                                                         *)
(* Time is counted in ticks of stepWaitTime: it advances only in          *)
(* time.Sleep(stepWaitTime); engine calls and dials are instantaneous.    *)
(***************************************************************************)
EXTENDS Integers, Sequences, FiniteSets, TLC

\* ------------------------------------------------------------- bounds
\* selectPorts on its own: the external ports of the host are 1..MaxPort, and
\* a call gets at most MaxSpecs bindings.
MaxPort == 3
MaxSpecs == 2
\* New as a whole: the host's ports and the requested ranges lie in
\* 1..MaxLaunchPort.
MaxLaunchPort == 2
\* maxWaitTime / stepWaitTime: the number of step intervals in one wait budget.
MaxWait == 3
\* The longest pull event stream the engine sends.
MaxEvents == 2
\* How many times the caller invokes the returned teardown function.
MaxTeardowns == 2

\* ---------------------------------------------------------- constants
dockerAddress == "127.0.0.1"
\* The one tick a poll sleeps (stepWaitTime in units of itself).
stepWaitTime == 1
\* selected.Port when the selector found no port (Go's zero value).
NoPort == 0

HostPorts == 1..MaxPort
LaunchPorts == 1..MaxLaunchPort
Internals == {80, 81}
Protocols == {"tcp"}
RequestedImage == "busybox:latest"
ContainerID == "c0ffee"

WellFormed(text) == Len(text) = 2 /\ text[1] <= text[2]

\* The texts of external intervals over a set of ports: <<lo, hi>> stands for
\* "lo-hi", <<>> for a text that is no interval.
IntervalTexts(ports) ==
    {t \in {<<lo, hi>> : lo \in ports, hi \in ports} : WellFormed(t)} \cup {<<>>}

PortBindings(ports) ==
    {[Protocol |-> p, Internal |-> n, ExternalInterval |-> t] :
        p \in Protocols, n \in Internals, t \in IntervalTexts(ports)}

RECURSIVE SeqsUpTo(_, _)
SeqsUpTo(S, n) ==
    IF n = 0 THEN {<<>>}
    ELSE LET shorter == SeqsUpTo(S, n - 1)
         IN shorter \cup {Append(s, x) : s \in {t \in shorter : Len(t) = n - 1}, x \in S}

\* The Options New is run on: Ports nil, empty, or one or two bindings.
LaunchOptions ==
    LET lists == {<<a>> : a \in PortBindings(LaunchPorts)}
                 \cup {<<a, b>> : a \in PortBindings(LaunchPorts),
                                  b \in PortBindings(LaunchPorts)}
    IN {[Image |-> RequestedImage, Ports |-> ps, PortsNil |-> FALSE] :
            ps \in lists \cup {<<>>}}
       \cup {[Image |-> RequestedImage, Ports |-> <<>>, PortsNil |-> TRUE]}

\* The Options whose Ports selectPorts is run on, on its own.
AllocOptions ==
    {[Image |-> RequestedImage, Ports |-> ps, PortsNil |-> FALSE] :
        ps \in SeqsUpTo(PortBindings(HostPorts), MaxSpecs)}

\* ------------------------------------------------- external libraries
\* interval.ParseIntervalInteger: the inclusive range of a text, or an error.
ParseIntervalInteger(text) ==
    IF WellFormed(text)
    THEN [ok |-> TRUE, Min |-> text[1], Max |-> text[2]]
    ELSE [ok |-> FALSE, Min |-> 0, Max |-> 0]

\* connectionutils.SelectPortExcluding: every result the selector may give.
\* A port of the range that is not bound on the host and not excluded; when
\* there is none, an error and no port.
SelectPortExcluding(busy, iv, excluded) ==
    LET free == {p \in iv.Min..iv.Max : p \notin busy /\ p \notin excluded}
    IN IF free = {}
       THEN {[Port |-> NoPort, Err |-> TRUE]}
       ELSE {[Port |-> p, Err |-> FALSE] : p \in free}

\* The responses of the engine's image listing: each image is its RepoTags.
ImageLists ==
    { <<>>,
      <<{"mongo:4"}>>,
      <<{"mongo:4"}, {"busybox:1", "busybox:latest"}>> }

EventKinds == {"status", "error", "garbage"}

\* The event streams of a pull: JSON documents, then end-of-stream.
Streams == SeqsUpTo(EventKinds, MaxEvents)

\* ---------------------------------------------------------- helpers
EmptyMap == [b \in {} |-> 0]

\* A selectPorts that records the port next to the selected one.
MapPutOff(m, k, v) == [x \in DOMAIN m \cup {k} |-> IF x = k THEN v + 1 ELSE m[x]]

\* toReturn[binding] = selected.Port
MapPut(m, k, v) == [x \in DOMAIN m \cup {k} |-> IF x = k THEN v ELSE m[x]]

\* nat.Port(strconv.Itoa(binding.Internal) + "/" + binding.Protocol)
NatPort(binding) == <<binding.Internal, binding.Protocol>>

\* toExposedPorts: the set of internal port/protocol keys.
toExposedPorts(ports) == {NatPort(ports[k]) : k \in 1..Len(ports)}

\* []nat.PortBinding{{HostPort: strconv.Itoa(selectedPort)}}: one host binding,
\* its HostIP left empty.
HostBindings(selectedPort) == <<[HostIP |-> "", HostPort |-> selectedPort]>>

\* toDockerPortBindings: every map the loop over the Go map may build. Two
\* bindings with the same internal port and protocol write the same key, and
\* the one iterated last stays.
toDockerPortBindings(ports) ==
    LET keys == {NatPort(b) : b \in DOMAIN ports}
    IN {f \in [keys -> {HostBindings(ports[b]) : b \in DOMAIN ports}] :
          \A k \in keys : \E b \in DOMAIN ports :
              NatPort(b) = k /\ f[k] = HostBindings(ports[b])}

\* The host ports a port map binds.
BoundPorts(bindings) ==
    {bindings[k][1].HostPort : k \in DOMAIN bindings}

\* Whether the first listed image carries the requested tag.
ImagePresentAtHead(listed, image) ==
    listed # <<>> /\ \E tag \in listed[1] : tag = image

\* pullImage: whether a listed image carries the requested tag.
ImagePresent(listed, image) ==
    \E k \in 1..Len(listed) : \E tag \in listed[k] : tag = image

\* The decode loop of pullImage: "" at end-of-stream, an error at the first
\* document that does not decode.
DecodeAll(stream) ==
    IF \E k \in 1..Len(stream) : stream[k] = "garbage"
    THEN "Error decoding json stream"
    ELSE ""

\* checkOptions
checkOptions(o) ==
    IF o.PortsNil \/ Len(o.Ports) = 0
    THEN "At least one port should be open for external communication"
    ELSE ""

\* ------------------------------------------------------ return values
NilInfo == [nil |-> TRUE, Identifier |-> "", Address |-> "", Ports |-> EmptyMap]
NilTeardown == [nil |-> TRUE, containerID |-> ""]

\* A failing return that still hands out a ContainerInfo.
FailWithInfo(e) ==
    [info |-> [nil |-> FALSE, Identifier |-> "", Address |-> "", Ports |-> EmptyMap],
     teardown |-> NilTeardown, err |-> e]

\* return nil, nil, err
Fail(e) == [info |-> NilInfo, teardown |-> NilTeardown, err |-> e]

\* A successful return whose ContainerInfo carries the container's name.
SuccessByName(id, ip, ports) ==
    [info |-> [nil |-> FALSE, Identifier |-> "docker-test", Address |-> ip,
               Ports |-> ports],
     teardown |-> [nil |-> FALSE, containerID |-> id],
     err |-> ""]

\* return &ContainerInfo{...}, func() error {...}, nil
Success(id, ip, ports) ==
    [info |-> [nil |-> FALSE, Identifier |-> id, Address |-> ip, Ports |-> ports],
     teardown |-> [nil |-> FALSE, containerID |-> id],
     err |-> ""]

\* One call of the engine client, as the engine sees it.
Call(op, arg, force, ok) == [op |-> op, arg |-> arg, force |-> force, ok |-> ok]

\* A teardown that removes without force.
RemoveCallNoForce(id, ok) == Call("removeContainer", id, FALSE, ok)

\* client.ContainerRemove(ctx, containerID, types.ContainerRemoveOptions{Force: true})
RemoveCall(id, ok) == Call("removeContainer", id, TRUE, ok)

\* The port of the last binding of the request.
reachablePortsOfLast(ports, assigned) == assigned[ports[Len(ports)]]

\* reachablePorts := dockerPorts[options.Ports[0]]
reachablePorts(ports, assigned) == assigned[ports[1]]

\* dockerAddress + ":" + strconv.Itoa(reachablePorts)
HostPort(ip, port) == <<ip, port>>

\* A deadline counted from the start of the gate, whenever it is taken.
DeadlineOfGate(t) == MaxWait

\* done := time.Now().Add(maxWait), taken at tick t
Deadline(t) == t + MaxWait

\* A waitContainer that ignores the error of waitStarted.
AfterWaitStartedIgnoring(err) == "waitReachable"

\* waitContainer: where the call goes after waitStarted returned err.
AfterWaitStarted(err) == IF err # "" THEN "returned" ELSE "waitReachable"

\* ------------------------------------------------------------- state
VARIABLES
    options,       \* the Options New was called with
    hostBusy,      \* the ports bound on the host when New is called
    pc,            \* where New stands
    engineCalls,   \* the calls made to the engine client, in order
    i,             \* selectPorts: index of the binding the loop is at
    used,          \* selectPorts: the excluded ports
    toReturn,      \* selectPorts: the map being built
    exhausted,     \* history: the selector reported an error in this call
    selErr,        \* selectPorts: the error it returned
    dockerPorts,   \* New: the map selectPorts returned
    portBindings,  \* New: the bindings passed to ContainerCreate
    exposedPorts,  \* New: the exposed ports passed to ContainerCreate
    containerID,   \* New: the id ContainerCreate returned
    containerState,\* engine: "none", "created", "started" or "removed"
    runAt,         \* environment: the tick from which inspection reports running
    listenAt,      \* environment: the tick from which the bound ports accept
    now,           \* time.Now() in ticks
    done,          \* the deadline of the running wait phase
    sawRunning,    \* history: an inspection reported State.Running
    reachFrom,     \* history: the tick at which waitReachable was entered
    dialled,       \* the ports net.Dial was called with, in order
    dialOk,        \* history: a net.Dial succeeded
    gateErr,       \* what waitContainer returned
    ret,           \* what New returned
    retAt,         \* the tick at which New returned
    teardowns,     \* what each invocation of the teardown function returned
    images,        \* pullImage: the listing it was given, until New's next step
    events,        \* pullImage: the event stream it was given, likewise
    race,          \* concurrent calls of New: each caller's position and locals
    raceBound      \* host ports bound by the containers of concurrent callers

vars == <<options, hostBusy, pc, engineCalls, i, used, toReturn, exhausted, selErr,
          dockerPorts, portBindings, exposedPorts, containerID, containerState,
          runAt, listenAt, now, done, sawRunning, reachFrom, dialled, dialOk,
          gateErr, ret, retAt, teardowns, images, events, race, raceBound>>

inputVars == <<options, hostBusy>>
raceVars == <<race, raceBound>>
pullVars == <<images, events>>
selectVars == <<i, used, toReturn, exhausted, selErr>>
launchVars == <<dockerPorts, portBindings, exposedPorts, containerID>>
envVars == <<containerState, runAt, listenAt>>
gateVars == <<now, done, sawRunning, reachFrom, dialled, dialOk, gateErr>>

\* The ticks at which a started container may begin to run: inside the budget
\* of waitStarted, or MaxWait for a start the budget does not see. Its ports
\* listen from a tick at most one budget later, or not within waitReachable.
StartTimes == 0..MaxWait

\* The state before anything ran, but for the inputs and pc.
Blank ==
    /\ engineCalls = <<>>
    /\ i = 1
    /\ used = {}
    /\ toReturn = EmptyMap
    /\ exhausted = FALSE
    /\ selErr = ""
    /\ dockerPorts = EmptyMap
    /\ portBindings = EmptyMap
    /\ exposedPorts = {}
    /\ containerID = ""
    /\ containerState = "none"
    /\ runAt = 0
    /\ listenAt = 0
    /\ now = 0
    /\ done = 0
    /\ sawRunning = FALSE
    /\ reachFrom = 0
    /\ dialled = <<>>
    /\ dialOk = FALSE
    /\ gateErr = ""
    /\ ret = Fail("")
    /\ retAt = 0
    /\ teardowns = <<>>
    /\ images = <<>>
    /\ events = <<>>

\* The callers of concurrent calls of New.
Callers == {"A", "B"}

\* A caller before its call of selectPorts.
Caller(ports) ==
    [pc |-> "selectPorts", Ports |-> ports, i |-> 1, toReturn |-> EmptyMap,
     exhausted |-> FALSE]

\* One call of New alone: no concurrent caller.
NoRace ==
    /\ race = [c \in Callers |-> Caller(<<>>)]
    /\ raceBound = {}

\* New(options) is called.
Init ==
    /\ options \in LaunchOptions
    /\ hostBusy \in SUBSET LaunchPorts
    /\ pc = "NewEnvClient"
    /\ Blank
    /\ NoRace

\* selectPorts(ip, options.Ports) is called.
InitAlloc ==
    /\ options \in AllocOptions
    /\ hostBusy \in SUBSET HostPorts
    /\ pc = "selectPorts"
    /\ Blank
    /\ NoRace

\* New returns r.
Return(r) ==
    /\ pc' = "returned"
    /\ ret' = r
    /\ retAt' = now

\* docker.NewEnvClient()
NewEnvClient ==
    /\ pc = "NewEnvClient"
    /\ \E ok \in BOOLEAN :
         IF ok
         THEN pc' = "ImageList" /\ UNCHANGED <<ret, retAt>>
         ELSE Return(Fail("MongoDB: Could not create docker client"))
    /\ UNCHANGED <<inputVars, raceVars, pullVars,
                   engineCalls, selectVars, launchVars, envVars,
                   gateVars, teardowns>>

\* pullImage: client.ImageList and the search for the requested tag.
ImageList ==
    /\ pc = "ImageList"
    /\ \E ok \in BOOLEAN : \E listed \in ImageLists :
         /\ engineCalls' = Append(engineCalls, Call("listImages", "", FALSE, ok))
         /\ IF ~ok
            THEN /\ Return(Fail("Downloading image: Listing images"))
                 /\ UNCHANGED images
            ELSE /\ images' = listed
                 /\ pc' = IF ImagePresent(listed, options.Image)
                          THEN "checkOptions" ELSE "ImagePull"
                 /\ UNCHANGED <<ret, retAt>>
    /\ UNCHANGED <<inputVars, raceVars, events, selectVars, launchVars, envVars,
                   gateVars, teardowns>>

\* pullImage: client.ImagePull and the decoding of the event stream.
ImagePull ==
    /\ pc = "ImagePull"
    /\ \E ok \in BOOLEAN : \E stream \in Streams :
         /\ engineCalls' = Append(engineCalls, Call("pullImage", options.Image, FALSE, ok))
         /\ IF ~ok
            THEN /\ Return(Fail("Downloading image: Pulling image"))
                 /\ UNCHANGED events
            ELSE /\ events' = stream
                 /\ IF DecodeAll(stream) # ""
                    THEN Return(Fail("Downloading image: Error decoding json stream"))
                    ELSE pc' = "checkOptions" /\ UNCHANGED <<ret, retAt>>
    /\ UNCHANGED <<inputVars, raceVars, images, selectVars, launchVars, envVars,
                   gateVars, teardowns>>

\* New: checkOptions(options)
CheckOptions ==
    /\ pc = "checkOptions"
    /\ IF checkOptions(options) # ""
       THEN Return(Fail("Docker instance cannot be used without a external port"))
       ELSE pc' = "uuid" /\ UNCHANGED <<ret, retAt>>
    /\ images' = <<>>
    /\ events' = <<>>
    /\ UNCHANGED <<inputVars, raceVars, engineCalls, selectVars, launchVars, envVars,
                   gateVars, teardowns>>

\* New: uuid.NewRandom(), then the entry into selectPorts.
NewRandom ==
    /\ pc = "uuid"
    /\ \E ok \in BOOLEAN :
         IF ok
         THEN /\ pc' = "selectPorts"
              /\ i' = 1 /\ used' = {} /\ toReturn' = EmptyMap
              /\ UNCHANGED <<ret, retAt, exhausted, selErr>>
         ELSE Return(Fail("generating docker suffix")) /\ UNCHANGED selectVars
    /\ UNCHANGED <<inputVars, raceVars, pullVars,
                   engineCalls, launchVars, envVars, gateVars, teardowns>>

\* selectPorts: one iteration of the loop over possiblePorts.
selectPortsIter ==
    /\ pc = "selectPorts"
    /\ i <= Len(options.Ports)
    /\ LET binding == options.Ports[i]
           iv == ParseIntervalInteger(binding.ExternalInterval)
       IN IF ~iv.ok
          THEN /\ selErr' = "Parsing"
               /\ toReturn' = EmptyMap
               /\ pc' = "selectPortsFailed"
               /\ UNCHANGED <<i, used, exhausted>>
          ELSE \E selected \in SelectPortExcluding(hostBusy, iv, used) :
                 /\ toReturn' = MapPut(toReturn, binding, selected.Port)
                 /\ exhausted' = (exhausted \/ selected.Err)
                 /\ i' = i + 1
                 /\ UNCHANGED <<used, pc, selErr>>
    /\ UNCHANGED <<inputVars, raceVars, pullVars,
                   engineCalls, launchVars, envVars, gateVars, ret,
                   retAt, teardowns>>

\* New: selectPorts returned an error.
selectPortsError ==
    /\ pc = "selectPortsFailed"
    /\ Return(Fail("Selecting ports"))
    /\ UNCHANGED <<inputVars, raceVars, pullVars,
                   engineCalls, selectVars, launchVars, envVars,
                   gateVars, teardowns>>

\* selectPorts returns toReturn; New translates it into the port bindings.
selectPortsReturn ==
    /\ pc = "selectPorts"
    /\ i > Len(options.Ports)
    /\ dockerPorts' = toReturn
    /\ \E pb \in toDockerPortBindings(toReturn) : portBindings' = pb
    /\ exposedPorts' = toExposedPorts(options.Ports)
    /\ pc' = "ContainerCreate"
    /\ UNCHANGED <<inputVars, raceVars, pullVars,
                   engineCalls, selectVars, containerID, envVars,
                   gateVars, ret, retAt, teardowns>>

\* client.ContainerCreate
ContainerCreate ==
    /\ pc = "ContainerCreate"
    /\ \E ok \in BOOLEAN :
         /\ engineCalls' = Append(engineCalls, Call("createContainer", options.Image, FALSE, ok))
         /\ IF ok
            THEN /\ containerID' = ContainerID
                 /\ containerState' = "created"
                 /\ pc' = "ContainerStart"
                 /\ UNCHANGED <<ret, retAt>>
            ELSE /\ Return(Fail("Could not create container"))
                 /\ UNCHANGED <<containerID, containerState>>
    /\ UNCHANGED <<inputVars, raceVars, pullVars,
                   selectVars, dockerPorts, portBindings, exposedPorts,
                   runAt, listenAt, gateVars, teardowns>>

\* A failed start after which New removes what it created.
StartFailedCleaning(call) ==
    /\ engineCalls' = Append(Append(engineCalls, call), RemoveCall(containerID, TRUE))
    /\ containerState' = "removed"
    /\ Return(Fail("Could not start container"))
    /\ UNCHANGED <<runAt, listenAt, done>>

\* client.ContainerStart failed: New returns the wrapped error at once.
StartFailed(call) ==
    /\ engineCalls' = Append(engineCalls, call)
    /\ Return(Fail("Could not start container"))
    /\ UNCHANGED <<containerState, runAt, listenAt, done>>

\* client.ContainerStart, then the entry into waitContainer and waitStarted.
\* A started container runs from some tick on and listens from a later one.
ContainerStart ==
    /\ pc = "ContainerStart"
    /\ \E ok \in BOOLEAN :
         IF ok
            THEN /\ engineCalls' = Append(engineCalls,
                                          Call("startContainer", containerID, FALSE, ok))
                 /\ containerState' = "started"
                 /\ \E t1 \in StartTimes : \E t2 \in t1..(t1 + MaxWait) :
                      runAt' = t1 /\ listenAt' = t2
                 /\ done' = Deadline(now)
                 /\ pc' = "waitStarted"
                 /\ UNCHANGED <<ret, retAt>>
            ELSE StartFailed(Call("startContainer", containerID, FALSE, ok))
    /\ UNCHANGED <<inputVars, raceVars, pullVars,
                   selectVars, launchVars, now, sawRunning, reachFrom,
                   dialled, dialOk, gateErr, teardowns>>

\* waitContainer returned err to New.
GateReturns(err) ==
    /\ gateErr' = err
    /\ IF err # ""
       THEN Return(Fail("Container not started withing time limit"))
       ELSE Return(Success(containerID, dockerAddress, dockerPorts))

\* waitStarted left its loop (deadline passed, or break): it returns its error.
waitStartedFails ==
    LET err == "Container not started"
    IN IF AfterWaitStarted(err) = "returned"
       THEN GateReturns(err) /\ UNCHANGED <<done, reachFrom>>
       ELSE /\ pc' = "waitReachable"
            /\ done' = Deadline(now)
            /\ reachFrom' = now
            /\ UNCHANGED <<gateErr, ret, retAt>>

\* waitStarted: one turn of the loop.
waitStartedPoll ==
    /\ pc = "waitStarted"
    /\ IF ~(now < done)
       THEN waitStartedFails /\ UNCHANGED <<engineCalls, now, sawRunning>>
       ELSE \E ok \in BOOLEAN :
              /\ engineCalls' = Append(engineCalls,
                                       Call("inspectContainer", containerID, FALSE, ok))
              /\ IF ~ok
                 THEN waitStartedFails /\ UNCHANGED <<now, sawRunning>>
                 ELSE IF now >= runAt
                 THEN /\ sawRunning' = TRUE
                      /\ pc' = AfterWaitStarted("")
                      /\ done' = Deadline(now)
                      /\ reachFrom' = now
                      /\ UNCHANGED <<now, gateErr, ret, retAt>>
                 ELSE /\ now' = now + stepWaitTime
                      /\ UNCHANGED <<pc, done, sawRunning, reachFrom, gateErr,
                                     ret, retAt>>
    /\ UNCHANGED <<inputVars, raceVars, pullVars,
                   selectVars, launchVars, envVars, dialled, dialOk,
                   teardowns>>

\* The port behind hostport accepts a connection at this tick.
Accepts(hostport) ==
    /\ containerState = "started"
    /\ now >= listenAt
    /\ hostport[1] = dockerAddress
    /\ hostport[2] # NoPort
    /\ hostport[2] \in BoundPorts(portBindings)

\* waitReachable: one turn of the loop, on the port of options.Ports[0].
waitReachablePoll ==
    /\ pc = "waitReachable"
    /\ LET hostport == HostPort(dockerAddress,
                                reachablePorts(options.Ports, dockerPorts))
       IN IF ~(now < done)
          THEN GateReturns("Could not reach") /\ UNCHANGED <<now, dialled, dialOk>>
          ELSE /\ dialled' = Append(dialled, hostport)
               /\ IF Accepts(hostport)
                  THEN /\ dialOk' = TRUE
                       /\ \E closeOk \in BOOLEAN :
                            GateReturns(IF closeOk THEN "" ELSE "close")
                       /\ UNCHANGED now
                  ELSE /\ now' = now + stepWaitTime
                       /\ UNCHANGED <<pc, dialOk, gateErr, ret, retAt>>
    /\ UNCHANGED <<inputVars, raceVars, pullVars,
                   engineCalls, selectVars, launchVars, envVars, done,
                   sawRunning, reachFrom, teardowns>>

\* The caller invokes the teardown function New returned.
Teardown ==
    /\ pc = "returned"
    /\ ~ret.teardown.nil
    /\ Len(teardowns) < MaxTeardowns
    /\ \E ok \in BOOLEAN :
         /\ engineCalls' = Append(engineCalls, RemoveCall(ret.teardown.containerID, ok))
         /\ teardowns' = Append(teardowns,
                                IF ok THEN "" ELSE "MongoDB: Could not remove")
         /\ containerState' = IF ok THEN "removed" ELSE containerState
    /\ UNCHANGED <<inputVars, raceVars, pullVars,
                   pc, selectVars, launchVars, runAt, listenAt,
                   gateVars, ret, retAt>>

Next ==
    \/ NewEnvClient
    \/ ImageList
    \/ ImagePull
    \/ CheckOptions
    \/ NewRandom
    \/ selectPortsIter
    \/ selectPortsError
    \/ selectPortsReturn
    \/ ContainerCreate
    \/ ContainerStart
    \/ waitStartedPoll
    \/ waitReachablePoll
    \/ Teardown

Spec == Init /\ [][Next]_vars

\* selectPorts on its own, on every list of bindings.
NextAlloc ==
    \/ selectPortsIter
    \/ selectPortsReturn

SpecAlloc == InitAlloc /\ [][NextAlloc]_vars

\* ------------------------------------------------ concurrent calls of New
\* Two callers run New at once on one host; each asks for one port. The
\* steps before selectPorts and the readiness gate bind no port and are left
\* out.
RaceRequests == {<<b>> : b \in PortBindings(LaunchPorts)}

InitRace ==
    /\ options = [Image |-> RequestedImage, Ports |-> <<>>, PortsNil |-> FALSE]
    /\ hostBusy \in SUBSET LaunchPorts
    /\ pc = "concurrent"
    /\ Blank
    /\ race \in [Callers -> {Caller(ps) : ps \in RaceRequests}]
    /\ raceBound = {}

\* The ports bound on the host: by others, and by the callers' containers.
Bound == hostBusy \cup raceBound

\* A step of a concurrent caller leaves the variables of the single call alone.
RaceFrame ==
    UNCHANGED <<inputVars, pullVars, pc, engineCalls, selectVars, launchVars,
                envVars, gateVars, ret, retAt, teardowns>>

\* A probe that keeps the port it found for its caller.
AfterProbeReserving(bound, port) == bound \cup ({port} \ {NoPort})

\* What the probe of selectPorts leaves bound on the host: nothing new, the
\* port is only looked at.
AfterProbe(bound, port) == bound

\* selectPorts of caller c: one iteration of the loop.
RaceSelectPortsIter(c) ==
    LET self == race[c]
    IN /\ self.pc = "selectPorts"
       /\ self.i <= Len(self.Ports)
       /\ LET binding == self.Ports[self.i]
              iv == ParseIntervalInteger(binding.ExternalInterval)
          IN IF ~iv.ok
             THEN /\ race' = [race EXCEPT ![c].pc = "returned",
                                          ![c].toReturn = EmptyMap]
                  /\ UNCHANGED raceBound
             ELSE \E selected \in SelectPortExcluding(Bound, iv, {}) :
                    /\ race' = [race EXCEPT
                                  ![c].toReturn = MapPut(self.toReturn, binding,
                                                         selected.Port),
                                  ![c].exhausted = self.exhausted \/ selected.Err,
                                  ![c].i = self.i + 1]
                    /\ raceBound' = AfterProbe(raceBound, selected.Port)
       /\ RaceFrame

\* selectPorts of caller c returns, and New goes on to ContainerCreate.
RaceSelectPortsReturn(c) ==
    /\ race[c].pc = "selectPorts"
    /\ race[c].i > Len(race[c].Ports)
    /\ race' = [race EXCEPT ![c].pc = "ContainerCreate"]
    /\ UNCHANGED raceBound
    /\ RaceFrame

\* client.ContainerCreate of caller c: the engine binds nothing yet.
RaceContainerCreate(c) ==
    /\ race[c].pc = "ContainerCreate"
    /\ \E ok \in BOOLEAN :
         race' = [race EXCEPT ![c].pc = IF ok THEN "ContainerStart" ELSE "returned"]
    /\ UNCHANGED raceBound
    /\ RaceFrame

\* The host ports the container of caller c asks the engine to bind.
RacePorts(c) ==
    UNION {BoundPorts(pb) : pb \in toDockerPortBindings(race[c].toReturn)}
        \ {NoPort}

\* client.ContainerStart of caller c: the engine binds the ports, and fails
\* when one of them is bound already.
RaceContainerStart(c) ==
    /\ race[c].pc = "ContainerStart"
    /\ \E ok \in BOOLEAN :
         IF ok /\ RacePorts(c) \cap Bound = {}
         THEN /\ race' = [race EXCEPT ![c].pc = "started"]
              /\ raceBound' = raceBound \cup RacePorts(c)
         ELSE /\ race' = [race EXCEPT ![c].pc = "returned"]
              /\ UNCHANGED raceBound
    /\ RaceFrame

NextRace ==
    \E c \in Callers :
        \/ RaceSelectPortsIter(c)
        \/ RaceSelectPortsReturn(c)
        \/ RaceContainerCreate(c)
        \/ RaceContainerStart(c)

SpecRace == InitRace /\ [][NextRace]_vars

\* ------------------------------------------------------------ claims
RangeOf(binding) ==
    LET iv == ParseIntervalInteger(binding.ExternalInterval)
    IN IF iv.ok THEN iv.Min..iv.Max ELSE {}

PortIndexes == 1..Len(options.Ports)

Called(op) == \E k \in 1..Len(engineCalls) : engineCalls[k].op = op

\* waitContainer was entered: ContainerStart succeeded.
GateEntered == \E k \in 1..Len(engineCalls) :
    engineCalls[k].op = "startContainer" /\ engineCalls[k].ok

\* The port dialled for options.Ports[0] is one the container was given.
FirstPortBound ==
    /\ Len(options.Ports) > 0
    /\ options.Ports[1] \in DOMAIN dockerPorts
    /\ dockerPorts[options.Ports[1]] # NoPort
    /\ dockerPorts[options.Ports[1]] \in BoundPorts(portBindings)

\* C1: New called with nil or empty Ports makes no engine call at all.
C1_NoEngineCallOnEmptyPorts ==
    checkOptions(options) # "" => engineCalls = <<>>

\* C2: the external ports chosen for the specs of one selectPorts call are
\* pairwise distinct, also when the ranges overlap.
C2_ChosenPortsDistinct ==
    ~exhausted =>
        \A a \in DOMAIN toReturn : \A b \in DOMAIN toReturn :
            a # b => toReturn[a] # toReturn[b]

\* C3: when a range holds no free, unclaimed port, selectPorts returns an
\* error and no assignment, and New fails without creating a container.
C3_ExhaustedRangeFails ==
    exhausted =>
        /\ dockerPorts = EmptyMap
        /\ ~Called("createContainer")
        /\ pc \in {"selectPorts", "selectPortsFailed", "returned"}
        /\ (pc = "selectPortsFailed" => selErr # "" /\ toReturn = EmptyMap)
        /\ (pc = "returned" => ret.err # "")

C4_Pre ==
    /\ Len(options.Ports) > 0
    /\ \A k \in PortIndexes : RangeOf(options.Ports[k]) \ hostBusy # {}
    /\ \A j \in PortIndexes : \A k \in PortIndexes :
         j # k => RangeOf(options.Ports[j]) \cap RangeOf(options.Ports[k]) = {}

C4_Good(m) ==
    /\ DOMAIN m = {options.Ports[k] : k \in PortIndexes}
    /\ Cardinality(DOMAIN m) = Len(options.Ports)
    /\ \A k \in PortIndexes : m[options.Ports[k]] \in RangeOf(options.Ports[k])
    /\ \A j \in PortIndexes : \A k \in PortIndexes :
         j # k => m[options.Ports[j]] # m[options.Ports[k]]

\* C4: for a non-empty list of specs with pairwise disjoint ranges that each
\* hold a free port, selectPorts returns (without error) one entry per spec,
\* every port inside its own spec's range, all ports pairwise distinct.
C4_DisjointRangesAssigned ==
    C4_Pre =>
        /\ pc # "selectPortsFailed"
        /\ selErr = ""
        /\ (pc = "ContainerCreate" => C4_Good(dockerPorts))

C4_Witness ==
    /\ C4_Pre
    /\ Len(options.Ports) = 2
    /\ pc = "ContainerCreate"
    /\ \E k \in PortIndexes : RangeOf(options.Ports[k]) \cap hostBusy # {}
    /\ C4_Good(dockerPorts)

\* C5: when the process runs from T1 < maxWait and the first port listens from
\* a later T2 < maxWait, New returns success, not before T2 and before the sum
\* of the two budgets.
C5_ReadyWithinBudgets ==
    (/\ pc = "returned"
     /\ GateEntered
     /\ FirstPortBound
     /\ runAt < MaxWait
     /\ listenAt < MaxWait
     /\ runAt < listenAt)
    => (ret.err = "" /\ retAt >= listenAt /\ retAt < 2 * MaxWait)

\* C6: when no inspection reports the process running, the gate fails with
\* the container-not-started error and never dials the readiness endpoint.
C6_NoProbeUnlessRunning ==
    /\ (dialled # <<>> => sawRunning)
    /\ (pc = "returned" /\ GateEntered /\ ~sawRunning =>
          /\ gateErr = "Container not started"
          /\ ret.err = "Container not started withing time limit"
          /\ dialled = <<>>)

C6_Witness ==
    /\ pc = "returned"
    /\ GateEntered
    /\ ~sawRunning
    /\ runAt >= MaxWait
    /\ now >= done
    /\ gateErr = "Container not started"

IsRemove(c) == c.op = "removeContainer"
Removes == SelectSeq(engineCalls, IsRemove)

\* C7: every invocation of the teardown function issues exactly one forced
\* removeContainer against ContainerInfo.Identifier, and returns an error
\* exactly when that call failed.
C7_TeardownRemovesOnce ==
    /\ Len(Removes) = Len(teardowns)
    /\ (teardowns # <<>> => ret.err = "" /\ ~ret.info.nil)
    /\ \A k \in 1..Len(Removes) :
         /\ Removes[k].force
         /\ Removes[k].arg = ret.info.Identifier
         /\ Removes[k].arg = containerID
         /\ (teardowns[k] # "" <=> ~Removes[k].ok)

C7_Witness ==
    /\ Len(teardowns) = 2
    /\ teardowns[1] # ""
    /\ teardowns[2] = ""
    /\ Len(Removes) = 2

\* C8: New returns either (info, teardown, nil) or (nil, nil, err), whatever
\* stage failed.
C8_AllOrNothing ==
    pc = "returned" =>
        \/ (ret.err = "" /\ ~ret.info.nil /\ ~ret.teardown.nil)
        \/ (ret.err # "" /\ ret.info.nil /\ ret.teardown.nil)

C8_Witness ==
    /\ pc = "returned"
    /\ ret.err = "Container not started withing time limit"
    /\ gateErr = "Could not reach"
    /\ ret.info.nil
    /\ ret.teardown.nil

\* C9: an inspection error is transient: waitStarted fails only once its wait
\* budget has elapsed.
C9_InspectErrorTransient ==
    gateErr = "Container not started" => now >= done

\* C10: once a connection to the readiness endpoint succeeded, the gate
\* returns success whatever closing the connection returns.
C10_ReachableMeansReady ==
    dialOk /\ pc = "returned" => gateErr = "" /\ ret.err = ""

(* Without inspection errors and close errors the timing of C5 holds. *)
FaultFree ==
    /\ \A k \in 1..Len(engineCalls) :
         engineCalls[k].op = "inspectContainer" => engineCalls[k].ok
    /\ gateErr # "close"

ReadyWithinBudgetsIfFaultFree == FaultFree => C5_ReadyWithinBudgets

(* The goroutine that runs New keeps running: a poll of the gate that can be
   made is made, every inspect and dial call returns, and the sleep between
   two polls ends. *)
SpecLive ==
    Spec /\ WF_vars(waitStartedPoll) /\ WF_vars(waitReachablePoll)

GateOutcomes == {"", "Container not started", "Could not reach"}

\* C11: once entered, the readiness gate terminates, and it ends in success
\* or in one of the two timeout errors (container not started, service
\* unreachable).
C11_GateTerminates ==
    GateEntered ~> (pc = "returned" /\ gateErr \in GateOutcomes)

(* Termination alone: the gate never polls forever. *)
GateReturnsEventually == GateEntered ~> (pc = "returned")

IsInspect(c) == c.op = "inspectContainer"
Inspects == SelectSeq(engineCalls, IsInspect)

\* C12: each readiness phase has its own budget, the second one counted from
\* the tick at which the network phase starts; no poll or sleep begins or ends
\* past the deadline of its phase, and the gate as a whole takes at most the
\* sum of the two budgets.
C12_PhaseBudgets ==
    /\ (pc = "waitStarted" => done = MaxWait /\ now <= done)
    /\ (pc = "waitReachable" =>
          /\ done = reachFrom + MaxWait
          /\ reachFrom < MaxWait
          /\ reachFrom <= now
          /\ now <= done)
    /\ Len(Inspects) <= MaxWait
    /\ Len(dialled) <= MaxWait
    /\ (pc = "returned" /\ GateEntered =>
          /\ retAt <= 2 * MaxWait
          /\ (sawRunning => retAt <= reachFrom + MaxWait)
          /\ (~sawRunning => retAt <= MaxWait))

C12_Witness ==
    /\ pc = "returned"
    /\ gateErr = "Could not reach"
    /\ reachFrom > 0
    /\ retAt = reachFrom + MaxWait
    /\ retAt > MaxWait
    /\ Len(dialled) = MaxWait

Created == \E k \in 1..Len(engineCalls) :
    engineCalls[k].op = "createContainer" /\ engineCalls[k].ok

Started == \E k \in 1..Len(engineCalls) :
    engineCalls[k].op = "startContainer" /\ engineCalls[k].ok

\* C13: New never issues removeContainer; when a step after a successful
\* createContainer fails, the container stays in the engine as it was and New
\* returns the wrapped error; removals come only from the teardown function
\* of a successful New.
C13_NewNeverRemoves ==
    /\ Len(Removes) = Len(teardowns)
    /\ (Removes # <<>> => pc = "returned" /\ ret.err = "")
    /\ (pc = "returned" /\ ret.err # "" /\ Created =>
          /\ Removes = <<>>
          /\ containerState = (IF Started THEN "started" ELSE "created")
          /\ ret.err \in {"Could not start container",
                          "Container not started withing time limit"}
          /\ ret.info.nil)

C13_Witness ==
    /\ pc = "returned"
    /\ ret.err = "Could not start container"
    /\ Created
    /\ ~Started
    /\ containerState = "created"
    /\ Removes = <<>>

CallsOf(op) == {k \in 1..Len(engineCalls) : engineCalls[k].op = op}

\* The image was listed, and pulled where a pull was asked for.
ImageResolved ==
    /\ Len(engineCalls) >= 1
    /\ engineCalls[1].op = "listImages"
    /\ engineCalls[1].ok
    /\ \A k \in CallsOf("pullImage") : k = 2 /\ engineCalls[k].ok

\* Every PortSpec of the request has an external port of its own range.
EveryPortSpecAssigned ==
    \A k \in PortIndexes :
        /\ options.Ports[k] \in DOMAIN dockerPorts
        /\ dockerPorts[options.Ports[k]] \in RangeOf(options.Ports[k])

(* The order of the stages alone: what each engine call comes after, and that
   no engine call of New follows a failed one. *)
StagesInOrder ==
    /\ Cardinality(CallsOf("createContainer")) <= 1
    /\ Cardinality(CallsOf("startContainer")) <= 1
    /\ \A k \in CallsOf("createContainer") :
         /\ ImageResolved
         /\ checkOptions(options) = ""
         /\ \A b \in PortIndexes : options.Ports[b] \in DOMAIN dockerPorts
    /\ \A k \in CallsOf("startContainer") :
         \E j \in CallsOf("createContainer") : j < k /\ engineCalls[j].ok
    /\ \A k \in CallsOf("inspectContainer") :
         \E j \in CallsOf("startContainer") : j < k /\ engineCalls[j].ok
    /\ (dialled # <<>> => Started)
    /\ \A j \in 1..Len(engineCalls) : \A k \in 1..Len(engineCalls) :
         (j < k /\ ~engineCalls[j].ok) => IsRemove(engineCalls[j])
    /\ (pc = "returned" /\ ret.err # "" =>
          /\ teardowns = <<>>
          /\ \A k \in 1..(Len(engineCalls) - 1) : engineCalls[k].ok)

\* C14: the stages of New run in sequence and a failing stage ends the call:
\* createContainer is called at most once, after the image was resolved and
\* every PortSpec received an external port; startContainer after a successful
\* createContainer; inspections and dials after a successful startContainer;
\* no engine call follows a failed stage.
C14_StagesInSequence ==
    /\ StagesInOrder
    /\ (Called("createContainer") => EveryPortSpecAssigned)

\* C15: every dial of the network phase goes to the port assigned to
\* options.Ports[0] on the target address, no other assigned port is dialled,
\* and the phase starts only after an inspection reported running.
C15_OnlyFirstPortProbed ==
    /\ \A k \in 1..Len(dialled) :
         /\ dialled[k][1] = "127.0.0.1"
         /\ dialled[k][2] = dockerPorts[options.Ports[1]]
    /\ (pc = "waitReachable" \/ dialled # <<>> =>
          /\ sawRunning
          /\ Inspects # <<>>
          /\ Inspects[Len(Inspects)].ok)

C15_Witness ==
    /\ pc = "returned"
    /\ Len(dialled) >= 2
    /\ Len(options.Ports) = 2
    /\ dockerPorts[options.Ports[1]] # NoPort
    /\ dockerPorts[options.Ports[2]] # NoPort
    /\ dockerPorts[options.Ports[1]] # dockerPorts[options.Ports[2]]

\* C16: the configuration passed to createContainer exposes every internal
\* port/protocol of the request and binds the internal port of every PortSpec
\* to the external port assigned to that PortSpec, also when two PortSpecs
\* share internal port and protocol.
C16_EveryPortSpecBound ==
    Called("createContainer") =>
        /\ \A k \in PortIndexes : NatPort(options.Ports[k]) \in exposedPorts
        /\ \A k \in PortIndexes :
             /\ NatPort(options.Ports[k]) \in DOMAIN portBindings
             /\ \E j \in 1..Len(portBindings[NatPort(options.Ports[k])]) :
                  portBindings[NatPort(options.Ports[k])][j].HostPort
                      = dockerPorts[options.Ports[k]]

(* Requests whose PortSpecs have pairwise different internal port/protocol. *)
DistinctInternals ==
    \A a \in PortIndexes : \A b \in PortIndexes :
        NatPort(options.Ports[a]) = NatPort(options.Ports[b])
            => options.Ports[a] = options.Ports[b]

EveryPortSpecBoundIfDistinct == DistinctInternals => C16_EveryPortSpecBound

\* The ports caller c was assigned by selectPorts.
Assigned(c) == {race[c].toReturn[b] : b \in DOMAIN race[c].toReturn} \ {NoPort}

Probed(c) == race[c].pc \in {"ContainerCreate", "ContainerStart"}

\* C17: nothing is held between the probe of selectPorts and the engine's
\* bind at container start: a port assigned to a caller whose container has
\* not started is bound for nobody and is still offered to the other caller,
\* so two callers with overlapping ranges can both be assigned the same port.
C17_NoReservation ==
    /\ raceBound = UNION {Assigned(c) : c \in {d \in Callers : race[d].pc = "started"}}
    /\ \A c \in Callers : \A p \in Assigned(c) :
         (Probed(c) /\ \A d \in Callers : race[d].pc # "started")
            => [Port |-> p, Err |-> FALSE]
                  \in SelectPortExcluding(Bound, [ok |-> TRUE, Min |-> p, Max |-> p], {})

C17_Witness ==
    /\ \A c \in Callers : race[c].pc = "ContainerStart"
    /\ \E p \in LaunchPorts : \A c \in Callers : p \in Assigned(c)
    /\ raceBound = {}

PullErrors ==
    {"Downloading image: Listing images", "Downloading image: Pulling image",
     "Downloading image: Error decoding json stream"}

\* pullImage has returned to New, and New has not moved on.
PullImageReturned ==
    pc = "checkOptions" \/ (pc = "returned" /\ ret.err \in PullErrors)

\* Some listed image carries a tag equal to the requested image.
TagListed == \E k \in 1..Len(images) : options.Image \in images[k]

\* C18: pullImage pulls exactly when the listing succeeded and no listed image
\* carries the requested tag; with the tag listed it succeeds without a pull;
\* with a failed listing it fails without a pull; after a pull it succeeds
\* only if the pull was accepted and every event of the stream decoded.
C18_PullsExactlyWhenAbsent ==
    /\ (pc = "ImagePull" => engineCalls[1].ok /\ ~TagListed)
    /\ (PullImageReturned =>
          /\ engineCalls[1].op = "listImages"
          /\ (Called("pullImage") <=> (engineCalls[1].ok /\ ~TagListed))
          /\ (engineCalls[1].ok /\ TagListed => pc = "checkOptions")
          /\ (~engineCalls[1].ok => ret.err = "Downloading image: Listing images")
          /\ (Called("pullImage") /\ pc = "checkOptions" =>
                /\ engineCalls[2].op = "pullImage"
                /\ engineCalls[2].ok
                /\ \A k \in 1..Len(events) : events[k] # "garbage"))

C18_Witness ==
    /\ pc = "checkOptions"
    /\ images # <<>>
    /\ Called("pullImage")
    /\ Len(events) = 2
    /\ events[1] = "error"

\* C19: when New returns success, ContainerInfo.Identifier is the id that
\* createContainer returned, ContainerInfo.Ports is the assignment that was
\* translated into the port bindings passed to createContainer, an inspection
\* of that id reported running, and after it a connection to the port
\* recorded for the first PortSpec succeeded.
C19_InfoConsistent ==
    (pc = "returned" /\ ret.err = "") =>
        /\ Created
        /\ containerID # ""
        /\ ret.info.Identifier = containerID
        /\ ret.info.Address = dockerAddress
        /\ ret.info.Ports = dockerPorts
        /\ portBindings \in toDockerPortBindings(ret.info.Ports)
        /\ sawRunning
        /\ Inspects # <<>>
        /\ Inspects[Len(Inspects)].ok
        /\ \A k \in 1..Len(Inspects) : Inspects[k].arg = ret.info.Identifier
        /\ dialOk
        /\ dialled # <<>>
        /\ dialled[Len(dialled)]
              = <<ret.info.Address, ret.info.Ports[options.Ports[1]]>>
        /\ ret.info.Ports[options.Ports[1]] \in BoundPorts(portBindings)

C19_Witness ==
    /\ pc = "returned"
    /\ ret.err = ""
    /\ Len(options.Ports) = 2
    /\ options.Ports[1] # options.Ports[2]
    /\ Len(Inspects) >= 2
    /\ Len(dialled) >= 2
    /\ ret.info.Ports[options.Ports[1]] \in LaunchPorts

====
